---- MODULE Spec2Model ----
(***************************************************************************)
(* A model of app.py, the financial controlling dashboard: the synthetic   *)
(* data generator (generate_financial_data) and the script that follows    *)
(* it: the time-period and department filter, the scenario block, the KPI  *)
(* cards, the ratio panel, the heatmap pivot, the cash-flow metrics and    *)
(* the data summary.  One run of the script is one pass of pc from         *)
(* "filter" to "done"; a widget interaction reruns the script.             *)
(*                                                                         *)
(* Numbers.  Currency amounts are integers in units of 10 (1 000 000 is    *)
(* 100000) and every generated amount is a whole multiple of 100 of these, *)
(* so that x * (1 + s/100) is exact for every slider value s.  A float     *)
(* that is the result of a division is a record [k, v]: k = "fin" with v   *)
(* the value in 1/Scale, rounded down, k = "nan", or k = "inf" with v the  *)
(* sign (numpy's division by zero gives nan or +-inf and raises nothing).  *)
(*                                                                         *)
(* Dates are day numbers counted from 1 January 2022 (day 0); all records  *)
(* of one run carry the same time of day, so it plays no part.             *)
(***************************************************************************)
EXTENDS Integers, Sequences, FiniteSets, TLC

VARIABLES
    now,                \* datetime.now() of this run, [year, month, day]
    stream,             \* which pseudo-random stream np.random.seed(42) gives
    main_df,            \* the monthly table, a sequence of rows
    dept_df,            \* the department table, a sequence of rows
    time_period,        \* sidebar selectbox
    department_filter,  \* sidebar multiselect
    revenue_scenario,   \* sidebar slider, percent
    expense_scenario,   \* sidebar slider, percent
    filtered_main,      \* the frame the name filtered_main refers to
    main_alias,         \* TRUE while filtered_main is the object main_df itself
    filtered_dept,      \* the frame the name filtered_dept refers to
    kpi,                \* the four metric cards
    ratios_df,          \* the ratio panel
    monthly_data,       \* the heatmap's working copy of filtered_main
    heatmap_data,       \* the Year x Month pivot
    cash,               \* the cash-flow panel
    summary,            \* the data summary
    error,              \* "none", or the exception that ended the run
    pc                  \* the block of the script that runs next

vars == <<now, stream, main_df, dept_df, time_period, department_filter,
          revenue_scenario, expense_scenario, filtered_main, main_alias,
          filtered_dept, kpi, ratios_df, monthly_data, heatmap_data, cash,
          summary, error, pc>>

(***************************************************************************)
(* Bounds of the model.                                                    *)
(***************************************************************************)
\* resolution of a float: a finite value is kept in 1/Scale
Scale == 100
\* the run's clock is one of the half-months 0 .. MaxClock, counted from
\* 15 January 2023 (clock 0) and 31 January 2023 (clock 1)
MaxClock == 47
\* the pseudo-random streams are 0 .. MaxStream
MaxStream == 1
\* the longest table handed directly to the panels
MaxPanelRows == 2

(***************************************************************************)
(* Floats.                                                                 *)
(***************************************************************************)
Fin(v) == [k |-> "fin", v |-> v]
NaN == [k |-> "nan", v |-> 0]
Inf(s) == [k |-> "inf", v |-> s]
Sign(a) == IF a < 0 THEN -1 ELSE 1

\* a / b in 1/Scale for b > 0, rounded down, without forming a * Scale
QuotPos(a, b) == (a \div b) * Scale + ((a % b) * Scale) \div b
Quot(a, b) == IF b > 0 THEN QuotPos(a, b) ELSE QuotPos(-a, -b)

\* numpy's true division of two amounts
NpDiv(a, b) ==
    IF b = 0 THEN (IF a = 0 THEN NaN ELSE Inf(Sign(a))) ELSE Fin(Quot(a, b))

\* float * integer and float - float
FMul(x, c) ==
    IF x.k = "fin" THEN Fin(x.v * c)
    ELSE IF x.k = "nan" \/ c = 0 THEN NaN
    ELSE Inf(x.v * Sign(c))
FSub(x, y) ==
    IF x.k = "nan" \/ y.k = "nan" THEN NaN
    ELSE IF x.k = "fin" /\ y.k = "fin" THEN Fin(x.v - y.v)
    ELSE IF x.k = "inf" /\ y.k = "inf"
         THEN (IF x.v = y.v THEN NaN ELSE Inf(x.v))
    ELSE IF x.k = "inf" THEN Inf(x.v)
    ELSE Inf(-y.v)

RECURSIVE SumSeq(_)
SumSeq(s) == IF s = <<>> THEN 0 ELSE Head(s) + SumSeq(Tail(s))

Column(df, c) == [i \in 1..Len(df) |-> df[i][c]]

\* Series.sum() of a column of amounts (0 for an empty column)
SeriesSum(s) == SumSeq(s)
\* Series.mean() of a column of amounts (nan for an empty column)
SeriesMean(s) == IF Len(s) = 0 THEN NaN ELSE Fin(Quot(SumSeq(s), Len(s)))

\* Series.mean() of a column of floats: nan entries are skipped
FloatMean(s) ==
    LET fin == SelectSeq(s, LAMBDA x : x.k = "fin")
        inf == SelectSeq(s, LAMBDA x : x.k = "inf")
        vals == [i \in 1..Len(fin) |-> fin[i].v]
    IN IF Len(fin) + Len(inf) = 0 THEN NaN
       ELSE IF Len(inf) > 0
            THEN (IF \E i, j \in 1..Len(inf) : inf[i].v # inf[j].v
                  THEN NaN ELSE Inf(inf[1].v))
       ELSE Fin(SumSeq(vals) \div Len(fin))

(***************************************************************************)
(* The calendar.                                                           *)
(***************************************************************************)
IsLeap(y) == y % 4 = 0 /\ (y % 100 # 0 \/ y % 400 = 0)
DaysInMonth(y, m) ==
    IF m = 2 THEN (IF IsLeap(y) THEN 29 ELSE 28)
    ELSE IF m \in {4, 6, 9, 11} THEN 30 ELSE 31

\* months are numbered from January 2022 = 0
YearOf(k) == 2022 + (k \div 12)
MonthOf(k) == (k % 12) + 1
MonthIndex(y, m) == (y - 2022) * 12 + (m - 1)
MaxMonthIndex == MonthIndex(2023, 1) + (MaxClock \div 2)
RECURSIVE DaysBefore(_)
DaysBefore(k) ==
    IF k = 0 THEN 0
    ELSE DaysBefore(k - 1) + DaysInMonth(YearOf(k - 1), MonthOf(k - 1))
\* the day number of the first day of each month
FirstDay == [k \in 0..(MaxMonthIndex + 1) |-> DaysBefore(k)]
MonthEnd(k) == FirstDay[k + 1] - 1
DayNum(y, m, d) == FirstDay[MonthIndex(y, m)] + d - 1

\* the month a day lies in
MonthKeys ==
    [d \in 0..MonthEnd(MaxMonthIndex) |->
        CHOOSE k \in 0..MaxMonthIndex : FirstDay[k] <= d /\ d <= MonthEnd(k)]
MonthKey(d) == MonthKeys[d]

\* pd.date_range(start, end, freq='M'): the month ends in [start, end]
date_range(start, end) ==
    LET ks == {k \in 0..MaxMonthIndex : start <= MonthEnd(k) /\ MonthEnd(k) <= end}
        first == CHOOSE k \in ks : \A j \in ks : k <= j
    IN [i \in 1..Cardinality(ks) |-> MonthEnd(first + i - 1)]

(***************************************************************************)
(* The generator.  np.random.seed(42) fixes one pseudo-random stream; the  *)
(* model does not know which, and takes it from a small family: draw p of  *)
(* stream s is Draw(s, p) in 0..999, the same at every call.               *)
(***************************************************************************)
base_revenue == 1000000
departments == <<"Sales", "Marketing", "R&D", "Operations", "Administration">>

Draw(s, p) == ((p * 389 + 17) * (2 * s + 3) + p * p * 7 + s * 131) % 1000

\* np.random.uniform(lo, hi) and np.random.normal(1, sd) in 1/1000, the
\* normal cut off at three standard deviations
Uniform(lo, hi, u) == lo + (((hi - lo) * u) \div 1000)
Normal(sd, u) == 1000 + ((sd * 3 * (u - 500)) \div 500)

\* an amount rounded down to a whole multiple of 100, and amount * factor
Money(x) == (x \div 100) * 100
Times(x, pm) == Money((x * pm) \div 1000)

\* np.linspace(0.9, 1.2, n)[i] and np.sin(np.linspace(0, 4*pi, n))[i] * 0.1 + 1
\* in 1/1000 (the sine by Bhaskara's approximation, the angle in degrees)
revenue_trend(i, n) == 900 + ((300 * i) \div (n - 1))
Sine(deg) ==
    LET d == deg % 180
        h == (4000 * d * (180 - d)) \div (40500 - d * (180 - d))
    IN IF (deg % 360) < 180 THEN h ELSE -h
seasonal_factor(i, n) == 1000 + (Sine((720 * i) \div (n - 1)) \div 10)

\* one row of main_df from its independent columns (lines 84-95, 118-135)
MakeRow(date, revenue, budget_revenue, expenses, budget_expenses, ocf_pm, icf_pm, fcf_pm, ca_pm, cl_pm) ==
    LET profit == revenue - expenses
        budget_profit == budget_revenue - budget_expenses
        operating_cash_flow == Times(profit, ocf_pm)
        investing_cash_flow == Times(-expenses, icf_pm)
        financing_cash_flow == Times(profit, fcf_pm)
    IN [Date |-> date,
        Revenue |-> revenue,
        Expenses |-> expenses,
        Profit |-> profit,
        Profit_Margin |-> NpDiv(profit, revenue),
        Budget_Revenue |-> budget_revenue,
        Budget_Expenses |-> budget_expenses,
        Budget_Profit |-> budget_profit,
        Budget_Profit_Margin |-> NpDiv(budget_profit, budget_revenue),
        Operating_Cash_Flow |-> operating_cash_flow,
        Investing_Cash_Flow |-> investing_cash_flow,
        Financing_Cash_Flow |-> financing_cash_flow,
        Net_Cash_Flow |-> operating_cash_flow + investing_cash_flow
                          + financing_cash_flow,
        Current_Assets |-> Times(revenue, ca_pm),
        Current_Liabilities |-> Times(expenses, cl_pm),
        Month |-> <<MonthOf(MonthKey(date)), YearOf(MonthKey(date))>>]

\* the dates of a run that starts at clock t
Dates(t) ==
    LET end_date == DayNum(t.year, t.month, t.day)
        start_date == end_date - 365
    IN date_range(start_date, end_date)

revenue_at(s, i, n) ==
    Times(Times(Times(base_revenue \div 10, revenue_trend(i, n)),
                seasonal_factor(i, n)),
          Normal(50, Draw(s, i)))
expenses_at(s, i, n) ==
    Times(Times(revenue_at(s, i, n), Uniform(600, 700, Draw(s, 2 * n + i))),
          Normal(30, Draw(s, 3 * n + i)))

\* generate_financial_data: the monthly table
generate_main(t, s) ==
    LET dates == Dates(t)
        n == Len(dates)
    IN [r \in 1..n |->
          LET i == r - 1
              revenue == revenue_at(s, i, n)
              expenses == expenses_at(s, i, n)
          IN MakeRow(dates[r], revenue,
                     Times(revenue, Uniform(1050, 1100, Draw(s, n + i))),
                     expenses,
                     Times(expenses, Uniform(950, 1000, Draw(s, 4 * n + i))),
                     Uniform(800, 1200, Draw(s, 5 * n + i)),
                     Uniform(100, 300, Draw(s, 6 * n + i)),
                     Uniform(-200, 200, Draw(s, 7 * n + i)),
                     Uniform(300, 500, Draw(s, 8 * n + i)),
                     Uniform(200, 400, Draw(s, 9 * n + i)))]

\* generate_financial_data: the department table, one row per (date, dept)
generate_dept(t, s) ==
    LET dates == Dates(t)
        n == Len(dates)
        nd == Len(departments)
    IN [r \in 1..(n * nd) |->
          LET i == (r - 1) \div nd
              j == (r - 1) % nd
              p == 10 * n + (i * nd + j) * 4
              dept_revenue == Times(revenue_at(s, i, n), Uniform(100, 300, Draw(s, p)))
              dept_expenses ==
                  Times(expenses_at(s, i, n), Uniform(150, 250, Draw(s, p + 1)))
              dept_budget_revenue ==
                  Times(dept_revenue, Uniform(1050, 1100, Draw(s, p + 2)))
              dept_budget_expenses ==
                  Times(dept_expenses, Uniform(950, 1000, Draw(s, p + 3)))
          IN [Date |-> dates[i + 1],
              Department |-> departments[j + 1],
              Revenue |-> dept_revenue,
              Expenses |-> dept_expenses,
              Profit |-> dept_revenue - dept_expenses,
              Budget_Revenue |-> dept_budget_revenue,
              Budget_Expenses |-> dept_budget_expenses,
              Budget_Profit |-> dept_budget_revenue - dept_budget_expenses,
              Month |-> <<MonthOf(MonthKey(dates[i + 1])),
                          YearOf(MonthKey(dates[i + 1]))>>]]

(***************************************************************************)
(* The sidebar.                                                            *)
(***************************************************************************)
TimePeriods == {"Last 3 Months", "Last 6 Months", "Last 12 Months", "All Time"}
AllDepartments == {departments[j] : j \in 1..Len(departments)}
\* the selections of the multiselect the model tries
DepartmentChoices == {AllDepartments, {"Sales", "R&D"}}
\* the slider positions (of -20..20) the model tries
ScenarioValues == {-20, 0, 10}

\* the clocks a run may start at: the middle and the last day of each month
ClockAt(c) ==
    LET k == MonthIndex(2023, 1) + (c \div 2)
    IN [year |-> YearOf(k), month |-> MonthOf(k),
        day |-> IF c % 2 = 0 THEN 15 ELSE DaysInMonth(YearOf(k), MonthOf(k))]
ClockChoices == {ClockAt(c) : c \in 0..MaxClock}
ClockIndex(t) ==
    ((MonthIndex(t.year, t.month) - MonthIndex(2023, 1)) * 2)
    + (IF t.day = 15 THEN 0 ELSE 1)

Unset == [set |-> FALSE]

(***************************************************************************)
(* The filter block, lines 189-203.                                        *)
(***************************************************************************)
RECURSIVE MaxOf(_)
MaxOf(s) ==
    IF Len(s) = 1 THEN s[1]
    ELSE LET m == MaxOf(Tail(s)) IN IF s[1] >= m THEN s[1] ELSE m
RECURSIVE MinOf(_)
MinOf(s) ==
    IF Len(s) = 1 THEN s[1]
    ELSE LET m == MinOf(Tail(s)) IN IF s[1] <= m THEN s[1] ELSE m

\* a slip: the two windows' day counts exchanged
WindowDaysExchanged(tp) == IF tp = "Last 3 Months" THEN 180 ELSE 90

\* timedelta(days=...) of a windowed time period
WindowDays(tp) == IF tp = "Last 3 Months" THEN 90 ELSE 180
Windowed(tp) == tp \in {"Last 3 Months", "Last 6 Months"}

\* df[df['Date'] >= df['Date'].max() - timedelta(days)]; the maximum of an
\* empty column is NaT, and no date compares >= NaT
FilterRows(df, tp) ==
    IF ~Windowed(tp) THEN df
    ELSE IF Len(df) = 0 THEN <<>>
    ELSE LET cut == MaxOf(Column(df, "Date")) - WindowDays(tp)
         IN SelectSeq(df, LAMBDA row : row.Date >= cut)

\* filtered_dept[filtered_dept['Department'].isin(department_filter)]
FilterDepartments(df, sel) == SelectSeq(df, LAMBDA row : row.Department \in sel)

\* whether the name filtered_main is bound to the object main_df itself
BindsBase(tp) == ~Windowed(tp)

Filter ==
    /\ pc = "filter"
    /\ filtered_main' = FilterRows(main_df, time_period)
    /\ main_alias' = BindsBase(time_period)
    /\ filtered_dept' =
           FilterDepartments(FilterRows(dept_df, time_period), department_filter)
    /\ pc' = "scenario"
    /\ UNCHANGED <<now, stream, main_df, dept_df, time_period, department_filter,
                   revenue_scenario, expense_scenario, kpi, ratios_df,
                   monthly_data, heatmap_data, cash, summary, error>>

(***************************************************************************)
(* The scenario block, lines 205-216.                                      *)
(***************************************************************************)
\* a slip: x * (pct / 100), the 1 + left out
ScaleByFraction(x, pct) == (x * pct) \div 100

\* x * (1 + pct / 100)
ScaleBy(x, pct) == (x * (100 + pct)) \div 100

\* a slip: .copy() left out, the name still refers to the same object
no_copy(shared) == shared

\* DataFrame.copy(): whether the result is still the object it was taken from
copy(shared) == FALSE

\* a slip: the revenue change cascades into the operating cash flow
ApplyRevenueScenarioCascading(df, pct) ==
    [i \in 1..Len(df) |->
        LET revenue == (df[i].Revenue * (100 + pct)) \div 100
            profit == revenue - df[i].Expenses
        IN [df[i] EXCEPT !.Revenue = revenue,
                         !.Profit = profit,
                         !.Profit_Margin = NpDiv(profit, revenue),
                         !.Operating_Cash_Flow =
                             (df[i].Operating_Cash_Flow * (100 + pct)) \div 100]]

\* lines 208-210 on every row
ApplyRevenueScenario(df, pct) ==
    [i \in 1..Len(df) |->
        LET revenue == ScaleBy(df[i].Revenue, pct)
            profit == revenue - df[i].Expenses
        IN [df[i] EXCEPT !.Revenue = revenue,
                         !.Profit = profit,
                         !.Profit_Margin = NpDiv(profit, revenue)]]

\* a slip: line 215 left out, Profit keeps its old value
ApplyExpenseScenarioStale(df, pct) ==
    [i \in 1..Len(df) |->
        [df[i] EXCEPT !.Expenses = (df[i].Expenses * (100 + pct)) \div 100]]

\* lines 214-216 on every row
ApplyExpenseScenario(df, pct) ==
    [i \in 1..Len(df) |->
        LET expenses == ScaleBy(df[i].Expenses, pct)
            profit == df[i].Revenue - expenses
        IN [df[i] EXCEPT !.Expenses = expenses,
                         !.Profit = profit,
                         !.Profit_Margin = NpDiv(profit, df[i].Revenue)]]

Scenario ==
    /\ pc = "scenario"
    /\ LET alias1 == IF revenue_scenario # 0 THEN copy(main_alias) ELSE main_alias
           frame1 == IF revenue_scenario # 0
                     THEN ApplyRevenueScenario(filtered_main, revenue_scenario)
                     ELSE filtered_main
           base1 == IF alias1 THEN frame1 ELSE main_df
           alias2 == IF expense_scenario # 0 THEN copy(alias1) ELSE alias1
           frame2 == IF expense_scenario # 0
                     THEN ApplyExpenseScenario(frame1, expense_scenario)
                     ELSE frame1
           base2 == IF alias2 THEN frame2 ELSE base1
       IN /\ filtered_main' = frame2
          /\ main_alias' = alias2
          /\ main_df' = base2
    /\ pc' = "kpi"
    /\ UNCHANGED <<now, stream, dept_df, time_period, department_filter,
                   revenue_scenario, expense_scenario, filtered_dept, kpi,
                   ratios_df, monthly_data, heatmap_data, cash, summary, error>>

(***************************************************************************)
(* The metric cards, lines 229-251.                                        *)
(***************************************************************************)
\* main_df[main_df['Date'] < filtered_main['Date'].min()]
PriorRows(base, frame) ==
    LET first == MinOf(Column(frame, "Date"))
    IN SelectSeq(base, LAMBDA row : row.Date < first)

\* ((total - prev) / prev * 100) if prev > 0 else 0
PercentChange(total, prev) ==
    IF prev > 0 THEN FMul(NpDiv(total - prev, prev), 100) ELSE Fin(0)

\* a total, the total it is compared with, and the change
AmountCard(base, frame, c) ==
    LET total == SeriesSum(Column(frame, c))
        prev == IF Len(frame) > 0
                THEN SeriesSum(Column(PriorRows(base, frame), c))
                ELSE total
    IN [total |-> total, prev |-> prev, change |-> PercentChange(total, prev)]

\* lines 248-250
MarginCard(base, frame) ==
    LET avg_margin == FMul(FloatMean(Column(frame, "Profit_Margin")), 100)
        prev_margin ==
            IF Len(frame) > 0
            THEN FMul(FloatMean(Column(PriorRows(base, frame), "Profit_Margin")), 100)
            ELSE avg_margin
    IN [total |-> avg_margin, prev |-> prev_margin,
        change |-> FSub(avg_margin, prev_margin)]

KPI ==
    /\ pc = "kpi"
    /\ kpi' = [set |-> TRUE,
               revenue |-> AmountCard(main_df, filtered_main, "Revenue"),
               expenses |-> AmountCard(main_df, filtered_main, "Expenses"),
               profit |-> AmountCard(main_df, filtered_main, "Profit"),
               margin |-> MarginCard(main_df, filtered_main)]
    /\ pc' = "ratios"
    /\ UNCHANGED <<now, stream, main_df, dept_df, time_period, department_filter,
                   revenue_scenario, expense_scenario, filtered_main, main_alias,
                   filtered_dept, ratios_df, monthly_data, heatmap_data, cash,
                   summary, error>>

(***************************************************************************)
(* The ratio panel, lines 322-370.                                         *)
(***************************************************************************)
\* frame.iloc[-1] if len(frame) > 0 else base.iloc[-1]
HasLast(base, frame) == Len(frame) > 0 \/ Len(base) > 0
LastRecord(base, frame) ==
    IF Len(frame) > 0 THEN frame[Len(frame)] ELSE base[Len(base)]

\* a / b if b > 0 else 0
Guarded(a, b) == IF b > 0 THEN NpDiv(a, b) ELSE Fin(0)

\* a slip: the guard of line 326 left out
current_ratio_unguarded(row) == NpDiv(row.Current_Assets, row.Current_Liabilities)

current_ratio(row) == Guarded(row.Current_Assets, row.Current_Liabilities)
\* (Current_Assets * 0.7) / Current_Liabilities, the guard as above
quick_ratio(row) ==
    IF row.Current_Liabilities > 0
    THEN NpDiv(row.Current_Assets * 7, row.Current_Liabilities * 10)
    ELSE Fin(0)
operating_cash_flow_ratio(row) ==
    Guarded(row.Operating_Cash_Flow, row.Current_Liabilities)
revenue_variance(row) ==
    Guarded(row.Revenue - row.Budget_Revenue, row.Budget_Revenue)
expense_variance(row) ==
    Guarded(row.Expenses - row.Budget_Expenses, row.Budget_Expenses)
\* line 353
revenue_growth(frame) ==
    IF Len(frame) > 1
    THEN FSub(NpDiv(frame[Len(frame)].Revenue, frame[Len(frame) - 1].Revenue),
              Fin(Scale))
    ELSE Fin(0)

RatioNames ==
    <<"Gross Profit Margin", "Operating Margin", "EBITDA Margin", "Expense Ratio",
      "Revenue Growth (MoM)", "Return on Investment", "Current Ratio",
      "Quick Ratio", "Operating Cash Flow Ratio", "Revenue Variance",
      "Expense Variance">>
\* the targets of line 361, in 1/1000
Targets == <<250, 200, 220, 650, 50, 300, 2000, 1500, 1200, 0, 0>>

\* the values of lines 348-360
RatioValues(base, frame) ==
    LET latest_data == LastRecord(base, frame)
    IN <<latest_data.Profit_Margin,
         NpDiv(latest_data.Profit, latest_data.Revenue),
         NpDiv(latest_data.Profit, latest_data.Revenue),
         NpDiv(latest_data.Expenses, latest_data.Revenue),
         revenue_growth(frame),
         Guarded(latest_data.Profit, latest_data.Expenses),
         current_ratio(latest_data),
         quick_ratio(latest_data),
         operating_cash_flow_ratio(latest_data),
         revenue_variance(latest_data),
         expense_variance(latest_data)>>

\* float comparisons: every comparison with nan is false
AtLeast(x, target) ==
    IF x.k = "fin" THEN x.v * 1000 >= target * Scale
    ELSE x.k = "inf" /\ x.v = 1
AbsAtMost(x, pm) ==
    x.k = "fin" /\ (IF x.v < 0 THEN -x.v ELSE x.v) * 1000 <= pm * Scale

\* lines 366-370
Status(name, value, target) ==
    IF (name \in {"Revenue Variance", "Expense Variance"} /\ AbsAtMost(value, 50))
       \/ (name \notin {"Revenue Variance", "Expense Variance"}
           /\ AtLeast(value, target))
    THEN "Good" ELSE "Needs Attention"

Ratios ==
    /\ pc = "ratios"
    /\ IF HasLast(main_df, filtered_main)
       THEN /\ ratios_df' =
                 [set |-> TRUE,
                  latest |-> LastRecord(main_df, filtered_main),
                  rows |-> [i \in 1..Len(RatioNames) |->
                      LET v == RatioValues(main_df, filtered_main)[i]
                      IN [Ratio |-> RatioNames[i], Value |-> v,
                          Target |-> Targets[i],
                          Status |-> Status(RatioNames[i], v, Targets[i])]]]
            /\ pc' = "heatmap"
            /\ error' = error
       ELSE /\ ratios_df' = ratios_df
            /\ pc' = "failed"
            /\ error' = "IndexError"
    /\ UNCHANGED <<now, stream, main_df, dept_df, time_period, department_filter,
                   revenue_scenario, expense_scenario, filtered_main, main_alias,
                   filtered_dept, kpi, monthly_data, heatmap_data, cash, summary>>

(***************************************************************************)
(* The heatmap pivot, lines 391-409.                                       *)
(***************************************************************************)
\* monthly_data['Year'] = ...dt.year; monthly_data['Month'] = ...dt.month
WithCalendar(df) ==
    [i \in 1..Len(df) |->
        [f \in (DOMAIN df[i]) \cup {"Year"} |->
            IF f = "Year" THEN YearOf(MonthKey(df[i].Date))
            ELSE IF f = "Month" THEN MonthOf(MonthKey(df[i].Date))
            ELSE df[i][f]]]

all_months == 1..12

\* pivot_table(values='Profit Margin', index='Year', columns='Month',
\* aggfunc='mean').fillna(0), the missing months added as 0
Pivot(df) ==
    [y \in {df[i].Year : i \in 1..Len(df)} |->
        [m \in all_months |->
            LET cell == SelectSeq(df, LAMBDA row : row.Year = y /\ row.Month = m)
                mean == FloatMean(Column(cell, "Profit_Margin"))
            IN IF mean.k = "nan" THEN Fin(0) ELSE mean]]

Heatmap ==
    /\ pc = "heatmap"
    /\ LET shared == copy(TRUE)
           frame == WithCalendar(filtered_main)
       IN /\ monthly_data' = frame
          /\ heatmap_data' = [set |-> TRUE, cells |-> Pivot(frame)]
          /\ filtered_main' = IF shared THEN frame ELSE filtered_main
          /\ main_df' = IF shared /\ main_alias THEN frame ELSE main_df
    /\ pc' = "cash"
    /\ UNCHANGED <<now, stream, dept_df, time_period, department_filter,
                   revenue_scenario, expense_scenario, main_alias, filtered_dept,
                   kpi, ratios_df, cash, summary, error>>

(***************************************************************************)
(* The cash-flow panel, lines 435-483.                                     *)
(***************************************************************************)
\* float / float
FDiv(x, y) ==
    IF x.k = "nan" \/ y.k = "nan" THEN NaN
    ELSE IF x.k = "inf" /\ y.k = "inf" THEN NaN
    ELSE IF x.k = "inf" THEN Inf(x.v * Sign(y.v))
    ELSE IF y.k = "inf" THEN Fin(0)
    ELSE IF y.v = 0 THEN (IF x.v = 0 THEN NaN ELSE Inf(Sign(x.v)))
    ELSE Fin(Quot(x.v, y.v))

\* (frame['Operating_Cash_Flow'] / frame['Revenue']).mean() * 100
cash_conversion(frame) ==
    FMul(FloatMean([i \in 1..Len(frame) |->
                       NpDiv(frame[i].Operating_Cash_Flow, frame[i].Revenue)]),
         100)
\* frame['Current_Assets'].mean() / frame['Current_Liabilities'].mean()
current_ratio_avg(frame) ==
    FDiv(SeriesMean(Column(frame, "Current_Assets")),
         SeriesMean(Column(frame, "Current_Liabilities")))

CashFlow ==
    /\ pc = "cash"
    /\ IF HasLast(main_df, filtered_main)
       THEN /\ cash' =
                 [set |-> TRUE,
                  latest_cash_flow |-> LastRecord(main_df, filtered_main),
                  avg_operating_cf |->
                      SeriesMean(Column(filtered_main, "Operating_Cash_Flow")),
                  avg_net_cf |-> SeriesMean(Column(filtered_main, "Net_Cash_Flow")),
                  cash_conversion |-> cash_conversion(filtered_main),
                  current_ratio_avg |-> current_ratio_avg(filtered_main)]
            /\ pc' = "summary"
            /\ error' = error
       ELSE /\ cash' = cash
            /\ pc' = "failed"
            /\ error' = "IndexError"
    /\ UNCHANGED <<now, stream, main_df, dept_df, time_period, department_filter,
                   revenue_scenario, expense_scenario, filtered_main, main_alias,
                   filtered_dept, kpi, ratios_df, monthly_data, heatmap_data,
                   summary>>

(***************************************************************************)
(* The data summary, lines 514-524.                                        *)
(***************************************************************************)
\* Series.min() / .max() of the dates has a strftime: NaT (an empty column)
\* has none, and NaT.strftime raises ValueError
HasPeriod(frame) == Len(frame) > 0

Summary ==
    /\ pc = "summary"
    /\ IF HasPeriod(filtered_main)
       THEN /\ summary' =
                 [set |-> TRUE,
                  period_from |-> MinOf(Column(filtered_main, "Date")),
                  period_to |-> MaxOf(Column(filtered_main, "Date")),
                  total_records |-> Len(filtered_main),
                  departments |-> Cardinality(department_filter)]
            /\ pc' = "done"
            /\ error' = error
       ELSE /\ summary' = summary
            /\ pc' = "failed"
            /\ error' = "ValueError"
    /\ UNCHANGED <<now, stream, main_df, dept_df, time_period, department_filter,
                   revenue_scenario, expense_scenario, filtered_main, main_alias,
                   filtered_dept, kpi, ratios_df, monthly_data, heatmap_data, cash>>

(***************************************************************************)
(* A widget interaction reruns the script from the top: the tables are     *)
(* generated again, at the clock of the rerun.                             *)
(***************************************************************************)
\* the clocks of a rerun: the same, or the next one the model has
RerunClocks(t) ==
    {ClockAt(c) : c \in {ClockIndex(t), ClockIndex(t) + 1} \cap (0..MaxClock)}

\* the tables of every run the model has, generated once
Generated ==
    [t \in ClockChoices |->
        [s \in 0..MaxStream |->
            [main |-> generate_main(t, s), dept |-> generate_dept(t, s)]]]

Start(t, s, tp, depts, rs, es) ==
    /\ now' = t
    /\ stream' = s
    /\ main_df' = Generated[t][s].main
    /\ dept_df' = Generated[t][s].dept
    /\ time_period' = tp
    /\ department_filter' = depts
    /\ revenue_scenario' = rs
    /\ expense_scenario' = es
    /\ filtered_main' = <<>>
    /\ main_alias' = FALSE
    /\ filtered_dept' = <<>>
    /\ kpi' = Unset
    /\ ratios_df' = Unset
    /\ monthly_data' = <<>>
    /\ heatmap_data' = Unset
    /\ cash' = Unset
    /\ summary' = Unset
    /\ error' = "none"
    /\ pc' = "filter"

\* one widget changes per interaction
Interact ==
    /\ pc \in {"done", "failed"}
    /\ \E t \in RerunClocks(now), w \in 1..4 :
        \E tp \in IF w = 1 THEN TimePeriods \ {time_period} ELSE {time_period},
           depts \in IF w = 2 THEN DepartmentChoices \ {department_filter}
                     ELSE {department_filter},
           rs \in IF w = 3 THEN ScenarioValues \ {revenue_scenario}
                  ELSE {revenue_scenario},
           es \in IF w = 4 THEN ScenarioValues \ {expense_scenario}
                  ELSE {expense_scenario} :
            Start(t, stream, tp, depts, rs, es)

\* the first run: the widgets at their defaults (lines 151-184)
Init ==
    /\ now \in ClockChoices
    /\ stream \in 0..MaxStream
    /\ main_df = Generated[now][stream].main
    /\ dept_df = Generated[now][stream].dept
    /\ time_period = "Last 12 Months"
    /\ department_filter = AllDepartments
    /\ revenue_scenario = 0
    /\ expense_scenario = 0
    /\ filtered_main = <<>>
    /\ main_alias = FALSE
    /\ filtered_dept = <<>>
    /\ kpi = Unset
    /\ ratios_df = Unset
    /\ monthly_data = <<>>
    /\ heatmap_data = Unset
    /\ cash = Unset
    /\ summary = Unset
    /\ error = "none"
    /\ pc = "filter"

Next ==
    \/ Filter
    \/ Scenario
    \/ KPI
    \/ Ratios
    \/ Heatmap
    \/ CashFlow
    \/ Summary
    \/ Interact

Spec == Init /\ [][Next]_vars

(***************************************************************************)
(* The panels as functions of the tables they are handed.  The blocks from *)
(* the metric cards on read only main_df and filtered_main, and guard      *)
(* themselves against an empty frame and a zero denominator: PanelSpec     *)
(* runs them on small tables built the way the generator builds a row,     *)
(* with amounts that may be zero, and on every trailing part of such a     *)
(* table, the empty one included.                                          *)
(***************************************************************************)
PanelRows(date) ==
    {MakeRow(date, revenue, budget, expenses, budget, 1000, 200, 100, 400, cl_pm) :
        revenue \in {0, 100000}, expenses \in {0, 60000},
        budget \in {0, 80000}, cl_pm \in {0, 300}}

RECURSIVE PanelTables(_)
PanelTables(n) ==
    IF n = 0 THEN {<<>>}
    ELSE {Append(t, row) : t \in PanelTables(n - 1),
                           row \in PanelRows(MonthEnd(11 + n))}

Suffixes(df) ==
    {SubSeq(df, first, Len(df)) : first \in 1..(Len(df) + 1)}

PanelInit ==
    /\ now = [year |-> 2023, month |-> 12, day |-> 31]
    /\ stream = 0
    /\ main_df \in UNION {PanelTables(n) : n \in 1..MaxPanelRows}
    /\ dept_df = <<>>
    /\ time_period = "All Time"
    /\ department_filter = AllDepartments
    /\ revenue_scenario = 0
    /\ expense_scenario = 0
    /\ filtered_main \in Suffixes(main_df)
    /\ main_alias = FALSE
    /\ filtered_dept = <<>>
    /\ kpi = Unset
    /\ ratios_df = Unset
    /\ monthly_data = <<>>
    /\ heatmap_data = Unset
    /\ cash = Unset
    /\ summary = Unset
    /\ error = "none"
    /\ pc = "kpi"

PanelNext ==
    \/ KPI
    \/ Ratios
    \/ Heatmap
    \/ CashFlow
    \/ Summary

PanelSpec == PanelInit /\ [][PanelNext]_vars

(***************************************************************************)
(* The filter block as a function of time_period.  The selectbox hands the *)
(* script one of its four options; FilterSpec runs the script on the       *)
(* generated tables with any value of TimePeriodInputs, one that is not an *)
(* option included, to see which branch of lines 189-201 takes it.         *)
(***************************************************************************)
TimePeriodInputs == TimePeriods \cup {"Last 9 Months"}

FilterInit ==
    /\ now \in ClockChoices
    /\ stream \in 0..MaxStream
    /\ main_df = Generated[now][stream].main
    /\ dept_df = Generated[now][stream].dept
    /\ time_period \in TimePeriodInputs
    /\ department_filter = AllDepartments
    /\ revenue_scenario = 0
    /\ expense_scenario = 0
    /\ filtered_main = <<>>
    /\ main_alias = FALSE
    /\ filtered_dept = <<>>
    /\ kpi = Unset
    /\ ratios_df = Unset
    /\ monthly_data = <<>>
    /\ heatmap_data = Unset
    /\ cash = Unset
    /\ summary = Unset
    /\ error = "none"
    /\ pc = "filter"

FilterNext ==
    \/ Filter
    \/ Scenario
    \/ KPI
    \/ Ratios
    \/ Heatmap
    \/ CashFlow
    \/ Summary

FilterSpec == FilterInit /\ [][FilterNext]_vars

(***************************************************************************)
(* Properties.                                                             *)
(***************************************************************************)
\* the script is past the scenario block: filtered_main is final
PastScenario == pc \in {"kpi", "ratios", "heatmap", "cash", "summary", "done"}

\* the rows of the window before any scenario is applied
BaseRows == FilterRows(main_df, time_period)

RowIdentities(row) ==
    /\ row.Profit = row.Revenue - row.Expenses
    /\ row.Net_Cash_Flow = row.Operating_Cash_Flow + row.Investing_Cash_Flow
                           + row.Financing_Cash_Flow

\* C1: in every row of the generated monthly table and of filtered_main,
\* whatever the time period and the two scenario values, Profit is Revenue
\* minus Expenses and Net_Cash_Flow is the sum of the three cash flows.
C1_RowIdentities ==
    /\ \A i \in 1..Len(main_df) : RowIdentities(main_df[i])
    /\ \A i \in 1..Len(filtered_main) : RowIdentities(filtered_main[i])

\* C1's case: both scenarios applied to a three-month window
C1_Witness ==
    /\ pc = "kpi"
    /\ time_period = "Last 3 Months"
    /\ revenue_scenario # 0
    /\ expense_scenario # 0
    /\ Len(filtered_main) > 0
    /\ filtered_main[1].Profit # BaseRows[1].Profit

UntouchedFields ==
    {"Date", "Budget_Revenue", "Budget_Expenses", "Budget_Profit",
     "Budget_Profit_Margin", "Operating_Cash_Flow", "Investing_Cash_Flow",
     "Financing_Cash_Flow", "Net_Cash_Flow", "Current_Assets",
     "Current_Liabilities"}

\* C2: a scenario changes only Revenue, Expenses, Profit and Profit Margin of
\* filtered_main: the budget fields, the cash flows, the working capital and
\* the date of every row are those of the base row, and every row of
\* filtered_dept is a row of the department table, unchanged.
C2_ScenarioFrame ==
    PastScenario =>
        /\ LET base == BaseRows
           IN /\ Len(filtered_main) = Len(base)
              /\ \A i \in 1..Len(filtered_main) : \A f \in UntouchedFields :
                     filtered_main[i][f] = base[i][f]
        /\ \A i \in 1..Len(filtered_dept) : \E j \in 1..Len(dept_df) :
               filtered_dept[i] = dept_df[j]

\* C2's case: a scenario that did change the revenue and the expenses
C2_Witness ==
    /\ pc = "kpi"
    /\ Len(filtered_main) > 0
    /\ Len(filtered_dept) > 0
    /\ filtered_main[1].Revenue # BaseRows[1].Revenue
    /\ filtered_main[1].Expenses # BaseRows[1].Expenses

\* C3: every row's Revenue is the base Revenue times (1 + revenue_scenario/100)
\* and its Expenses the base Expenses times (1 + expense_scenario/100); with
\* (0, 0) Revenue, Expenses and Profit are those of the unperturbed window,
\* and with +10 the Revenue is the base Revenue times 1.10.
C3_ScenarioFactors ==
    PastScenario =>
        LET base == BaseRows
        IN \A i \in 1..Len(filtered_main) :
            /\ i <= Len(base)
            /\ filtered_main[i].Revenue * 100
                   = base[i].Revenue * (100 + revenue_scenario)
            /\ filtered_main[i].Expenses * 100
                   = base[i].Expenses * (100 + expense_scenario)
            /\ (revenue_scenario = 0 /\ expense_scenario = 0) =>
                   /\ filtered_main[i].Revenue = base[i].Revenue
                   /\ filtered_main[i].Expenses = base[i].Expenses
                   /\ filtered_main[i].Profit = base[i].Profit
            /\ revenue_scenario = 10 =>
                   filtered_main[i].Revenue * 10 = base[i].Revenue * 11

\* C3's case: +10 on the revenue, -20 on the expenses
C3_Witness ==
    /\ pc = "kpi"
    /\ revenue_scenario = 10
    /\ expense_scenario = -20
    /\ Len(filtered_main) >= 3

\* the last n rows of a table
LastRows(df, n) == SubSeq(df, Len(df) - n + 1, Len(df))

\* C4: with twelve month-end records and every department selected,
\* "Last 3 Months" gives exactly the 3 most recent records, in order, and
\* 3 x 5 = 15 department rows, whatever month the latest record is in;
\* "Last 6 Months" gives exactly the 6 most recent records.
C4_TrailingMonths ==
    (pc = "scenario" /\ Len(main_df) = 12 /\ department_filter = AllDepartments) =>
        /\ time_period = "Last 3 Months" =>
               /\ filtered_main = LastRows(main_df, 3)
               /\ Len(filtered_dept) = 3 * Len(departments)
        /\ time_period = "Last 6 Months" =>
               filtered_main = LastRows(main_df, 6)

\* the number of rows each time period gives, for the tables and the
\* department selection of the state
MainCount(tp) == Len(FilterRows(main_df, tp))
DeptCount(tp) ==
    Len(FilterDepartments(FilterRows(dept_df, tp), department_filter))

\* C5: for one base table, department selection and scenario, the row counts
\* grow with the window: 3 months <= 6 months <= 12 months <= all time, for
\* filtered_main and for filtered_dept.
C5_WindowMonotone ==
    /\ MainCount("Last 3 Months") <= MainCount("Last 6 Months")
    /\ MainCount("Last 6 Months") <= MainCount("Last 12 Months")
    /\ MainCount("Last 12 Months") <= MainCount("All Time")
    /\ DeptCount("Last 3 Months") <= DeptCount("Last 6 Months")
    /\ DeptCount("Last 6 Months") <= DeptCount("Last 12 Months")
    /\ DeptCount("Last 12 Months") <= DeptCount("All Time")
    /\ PastScenario =>
           /\ Len(filtered_main) = MainCount(time_period)
           /\ Len(filtered_dept) = DeptCount(time_period)

\* C5's case: a filtered three-month window, strictly smaller than the
\* six-month one, which is strictly smaller than the whole table
C5_Witness ==
    /\ pc = "kpi"
    /\ time_period = "Last 3 Months"
    /\ department_filter # AllDepartments
    /\ Len(filtered_main) < MainCount("Last 6 Months")
    /\ MainCount("Last 6 Months") < MainCount("All Time")
    /\ 0 < Len(filtered_dept)
    /\ Len(filtered_dept) < DeptCount("Last 6 Months")

\* C6: the base tables are never modified: whatever the time period, the
\* departments and the scenario, and after the heatmap has added its Year
\* and Month columns, main_df and dept_df are the tables
\* generate_financial_data returned for this run.
C6_BaseTablesUnchanged ==
    /\ main_df = Generated[now][stream].main
    /\ dept_df = Generated[now][stream].dept

\* C6's case: a run to the end in which filtered_main started as main_df
\* itself and a scenario was applied
C6_Witness ==
    /\ pc = "done"
    /\ BindsBase(time_period)
    /\ revenue_scenario # 0
    /\ expense_scenario # 0
    /\ heatmap_data.set
    /\ filtered_main # main_df

\* the value the ratio panel shows in its row i
RatioValue(i) == ratios_df.rows[i].Value

C8_RatioGuard ==
    (pc = "heatmap" /\ Len(filtered_main) > 0) =>
        LET row == filtered_main[Len(filtered_main)]
            assets == row.Current_Assets
            liabilities == row.Current_Liabilities
        IN /\ error = "none"
           /\ ratios_df.set
           /\ liabilities = 0 =>
                  /\ RatioValue(7) = Fin(0)
                  /\ RatioValue(8) = Fin(0)
                  /\ RatioValue(9) = Fin(0)
           /\ liabilities > 0 =>
                  /\ RatioValue(7).k = "fin"
                  /\ RatioValue(7).v * liabilities <= assets * Scale
                  /\ assets * Scale < (RatioValue(7).v + 1) * liabilities
                  /\ RatioValue(8).k = "fin"
                  /\ RatioValue(8).v * liabilities * 10 <= assets * 7 * Scale
                  /\ assets * 7 * Scale < (RatioValue(8).v + 1) * liabilities * 10

\* C8's case: the ratio panel has run on a latest record with assets and no
\* liabilities
C8_Witness ==
    /\ pc = "heatmap"
    /\ Len(filtered_main) > 0
    /\ filtered_main[Len(filtered_main)].Current_Liabilities = 0
    /\ filtered_main[Len(filtered_main)].Current_Assets > 0
    /\ ratios_df.set

\* C9: each change shown with a KPI aggregate compares the window with the
\* months of the base table strictly before the window's first month, and
\* is exactly 0 when there is no such month, for every scenario.
C9_ChangeAgainstPriorMonths ==
    (kpi.set /\ Len(filtered_main) > 0) =>
        LET prior == PriorRows(main_df, filtered_main)
        IN /\ kpi.revenue.prev = SumSeq(Column(prior, "Revenue"))
           /\ kpi.expenses.prev = SumSeq(Column(prior, "Expenses"))
           /\ kpi.profit.prev = SumSeq(Column(prior, "Profit"))
           /\ Len(prior) = 0 =>
                  /\ kpi.revenue.change = Fin(0)
                  /\ kpi.expenses.change = Fin(0)
                  /\ kpi.profit.change = Fin(0)
                  /\ kpi.margin.change = Fin(0)

TablesAt(t) == Generated[t][stream]

\* C12: two calls of generate_financial_data with the seed of this run that
\* give the same number of months return the same tables, the same Date and
\* the same value in every column of every row, whatever the clock of each
\* call: the tables of this run are those of a call at any other clock with
\* as many months.
C12_SameSeedSameTables ==
    \A t \in ClockChoices :
        Len(TablesAt(t).main) = Len(main_df) =>
            /\ TablesAt(t).main = main_df
            /\ TablesAt(t).dept = dept_df

====
